---- MODULE Spec2Model ----
(***************************************************************************)
(* A model of go-waitfor/waitfor: the scheme registry (registry.go), the   *)
(* options (options.go), the Runner's concurrent test-and-retry loop       *)
(* (Runner.Test, testAllInternal, testInternal) and Runner.Run.            *)
(*                                                                         *)
(* The specifications share the state: Spec (and FairSpec, Spec with the   *)
(* scheduler's fairness) is a Runner built from the tests' configuration   *)
(* on which Test or Run is called; RegistrySpec is a Registry built by     *)
(* newRegistry from any list of configurations, on which Register, Resolve *)
(* and List are called; BackoffSpec is the retry policy of one call of     *)
(* Test with any options, with the waits its backoff draws; ConcurrentSpec *)
(* is that policy for several calls at the same time; ConfiguredSpec is    *)
(* Spec for a Runner built from a configuration of the caller's, which may *)
(* hold a nil factory or a factory that returns no resource.               *)
(*                                                                         *)
(* The retry loop is backoff.Retry of github.com/cenkalti/backoff v2.2.1   *)
(* (the version go.mod pins) driven by                                     *)
(*   backoff.WithContext(backoff.WithMaxRetries(b, opts.attempts), ctx)    *)
(* with b = backoff.NewExponentialBackOff().  Its rules, as that version   *)
(* implements them:                                                        *)
(*   Retry:        for { if err = operation(); err == nil { return nil }   *)
(*                       if next = NextBackOff(); next == Stop {return err}*)
(*                       select { <-ctx.Done(): return err ; <-timer: } }  *)
(*   backOffContext.NextBackOff:  Stop when ctx is done; else the inner    *)
(*                 NextBackOff, and Stop when the context's deadline is    *)
(*                 nearer than the interval returned                       *)
(*   backOffTries.NextBackOff:    if maxTries > 0 { if maxTries <=         *)
(*                 numTries { return Stop }; numTries++ }; delegate        *)
(*   ExponentialBackOff.NextBackOff: Stop when the time elapsed since      *)
(*                 Reset exceeds MaxElapsedTime (15 min by default, which  *)
(*                 testInternal leaves unchanged); else the interval       *)
(* Time is abstract: a timer firing, the elapsed time passing the cap and  *)
(* the deadline coming near are nondeterministic.                          *)
(***************************************************************************)
EXTENDS Integers, Sequences, FiniteSets, TLC

(***************************************************************************)
(* Bounds of the model.                                                    *)
(***************************************************************************)
\* the longest resource list handed to Test
MaxResources == 2
\* the largest value given to WithAttempts
MaxAttempts == 2
\* how often the flaky resource fails before it succeeds
FlakyFails == 1

(***************************************************************************)
(* URLs.  A location is a sequence of one-character strings.               *)
(***************************************************************************)
LowerLetters == {"t", "u", "s", "f", "k", "x"}
UpperLetters == {"T", "U"}

IsLetter(c) == c \in LowerLetters \cup UpperLetters

IsSchemePunct(c) == c \in {"0", "1", "+", "-", "."}

\* strings.ToLower on one character
ToLowerChar(c) == IF c = "T" THEN "t" ELSE IF c = "U" THEN "u" ELSE c

ToLower(s) == [i \in 1..Len(s) |-> ToLowerChar(s[i])]

\* net/url getScheme: the scheme is the letters (then letters, digits, + - .)
\* before the first colon; a colon at the start is an error; any other
\* character before a colon means there is no scheme.
RECURSIVE getSchemeAt(_, _)
getSchemeAt(rawURL, i) ==
    IF i > Len(rawURL)
    THEN [scheme |-> <<>>, rest |-> rawURL, err |-> FALSE]
    ELSE IF IsLetter(rawURL[i])
    THEN getSchemeAt(rawURL, i + 1)
    ELSE IF IsSchemePunct(rawURL[i])
    THEN IF i = 1
         THEN [scheme |-> <<>>, rest |-> rawURL, err |-> FALSE]
         ELSE getSchemeAt(rawURL, i + 1)
    ELSE IF rawURL[i] = ":"
    THEN IF i = 1
         THEN [scheme |-> <<>>, rest |-> <<>>, err |-> TRUE]
         ELSE [scheme |-> SubSeq(rawURL, 1, i - 1),
               rest |-> SubSeq(rawURL, i + 1, Len(rawURL)), err |-> FALSE]
    ELSE [scheme |-> <<>>, rest |-> rawURL, err |-> FALSE]

getScheme(rawURL) == getSchemeAt(rawURL, 1)

HasPrefix(s, p) == Len(s) >= Len(p) /\ SubSeq(s, 1, Len(p)) = p

\* the index of the first c in s, or Len(s) + 1
RECURSIVE IndexFrom(_, _, _)
IndexFrom(s, c, i) ==
    IF i > Len(s) THEN Len(s) + 1
    ELSE IF s[i] = c THEN i
    ELSE IndexFrom(s, c, i + 1)

\* the first path segment of a scheme-less, rootless reference
FirstSegment(rest) == SubSeq(rest, 1, IndexFrom(rest, "/", 1) - 1)

\* the authority of "//host/path": the text between "//" and the next "/"
Authority(rest) == SubSeq(rest, 3, IndexFrom(rest, "/", 3) - 1)

\* url.Parse, for the characters of the model: the scheme is lower-cased;
\* a rootless reference without scheme must not hold a colon in its first
\* segment; "//" introduces the host.
urlParse(rawURL) ==
    LET g == getScheme(rawURL) IN
    IF g.err
    THEN [err |-> TRUE, Scheme |-> <<>>, Host |-> <<>>]
    ELSE IF ~HasPrefix(g.rest, <<"/">>) /\ g.scheme = <<>>
            /\ IndexFrom(FirstSegment(g.rest), ":", 1) <= Len(FirstSegment(g.rest))
    THEN [err |-> TRUE, Scheme |-> <<>>, Host |-> <<>>]
    ELSE [err |-> FALSE,
          Scheme |-> ToLower(g.scheme),
          Host |-> IF HasPrefix(g.rest, <<"/", "/">>)
                   THEN Authority(g.rest) ELSE <<>>]

(***************************************************************************)
(* Errors and resources.                                                   *)
(***************************************************************************)
\* An error is its message, the text it starts with and the detail that
\* follows the text, the text of the sentinel it wraps, if it wraps one, and,
\* for the error of a check, the invocation that returned it (a check makes a
\* new error value every time it fails); 0 for every other error.
NoWrap == "none"

\* errors.NewError(text)
NewError(text) ==
    [text |-> text, detail |-> <<>>, wraps |-> NoWrap, at |-> 0]

\* fmt.Errorf("%w: %s", sentinel, detail): the sentinel's text, then the
\* detail; errors.Is finds the sentinel in it
WrapError(sentinel, detail) ==
    [text |-> sentinel.text, detail |-> detail, wraps |-> sentinel.text,
     at |-> 0]

\* fmt.Errorf("%s: %s", sentinel, detail): the same message, nothing wrapped
FormatError(sentinel, detail) ==
    [text |-> sentinel.text, detail |-> detail, wraps |-> NoWrap, at |-> 0]

\* err.Error(): the text and the detail, as a sequence of strings
ErrorMessage(err) == <<err.text>> \o err.detail

\* errors.Is(err, sentinel)
ErrorsIs(err, sentinel) == err = sentinel \/ err.wraps = sentinel.text

\* strings.Contains(err.Error(), sentinel.Error()), for the messages of the
\* model: none holds another's text except at its start
MessageContains(err, sentinel) == err.text = sentinel.text

NoError == NewError("nil")
ErrParse == NewError("parse: missing protocol scheme")
ErrResourceNotFound == NewError("resource with a given scheme is not found")
ErrResourceAlreadyRegistered ==
    NewError("resource is already registered with a given scheme")
ErrFactory == NewError("factory error")
ErrUnknownHost == NewError("unknown host")
ErrNotAvailable == NewError("resource not available")
ErrWait == NewError("failed to wait for resource availability")
ErrInvalidArgument == NewError("invalid argument")

NoResource == "nil"

\* the error value the n-th invocation of a check makes
ReturnedAt(err, n) == [err EXCEPT !.at = n]

\* A resource is named by its behaviour: "success" never fails, "failure"
\* always fails, "flaky" fails FlakyFails times and then succeeds.
\* The result of the n-th invocation (n = 1, 2, ...) of a resource's Test.
ResourceTest(rsc, n) ==
    IF rsc \in {"success", "TestResource"} THEN NoError
    ELSE IF rsc = "flaky" /\ n > FlakyFails THEN NoError
    ELSE ReturnedAt(ErrNotAvailable, n)

\* The factory of the tests: the host selects the resource.
MockResourceFactory(u) ==
    IF u.Host = <<"s">> THEN [rsc |-> "success", err |-> NoError]
    ELSE IF u.Host = <<"f">> THEN [rsc |-> "failure", err |-> NoError]
    ELSE IF u.Host = <<"k">> THEN [rsc |-> "flaky", err |-> NoError]
    ELSE [rsc |-> NoResource, err |-> ErrUnknownHost]

\* the factory of the registry tests: a TestResource for any URL
TestResourceFactory(u) == [rsc |-> "TestResource", err |-> NoError]

\* the factory of TestRegistry_Resolve_FactoryError
ErrorFactory(u) == [rsc |-> NoResource, err |-> ErrFactory]

\* a factory that returns neither a resource nor an error
NilResourceFactory(u) == [rsc |-> NoResource, err |-> NoError]

\* a nil ResourceFactory, as Use returns it for a module that has none
NilFactory == "nil"

\* calling a nil function panics
CallPanics(f) == f = NilFactory

\* rf(u): a factory is named; the call runs the function of that name (the
\* call of a nil factory returns nothing: it panics)
ApplyFactory(f, u) ==
    IF f = "MockResourceFactory" THEN MockResourceFactory(u)
    ELSE IF f = "TestResourceFactory" THEN TestResourceFactory(u)
    ELSE IF f = "NilResourceFactory" THEN NilResourceFactory(u)
    ELSE IF f = NilFactory THEN [rsc |-> NoResource, err |-> NoError]
    ELSE ErrorFactory(u)

(***************************************************************************)
(* Registry.                                                               *)
(***************************************************************************)
\* A registry is a function from the bound schemes to factories.
EmptyRegistry == [s \in {} |-> "MockResourceFactory"]

\* resources[s] = c.Factory for every scheme of every configuration, in order
RECURSIVE newRegistryFrom(_, _)
newRegistryFrom(m, configs) ==
    IF configs = <<>> THEN m
    ELSE LET c == Head(configs) IN
         newRegistryFrom(
             [s \in DOMAIN m \cup c.Scheme |->
                 IF s \in c.Scheme THEN c.Factory ELSE m[s]],
             Tail(configs))

newRegistry(configs) == newRegistryFrom(EmptyRegistry, configs)

\* strings.TrimSpace, for the white space of the model
IsSpace(c) == c = " "

RECURSIVE TrimLeft(_)
TrimLeft(s) ==
    IF s # <<>> /\ IsSpace(Head(s)) THEN TrimLeft(Tail(s)) ELSE s

RECURSIVE TrimRight(_)
TrimRight(s) ==
    IF s # <<>> /\ IsSpace(s[Len(s)])
    THEN TrimRight(SubSeq(s, 1, Len(s) - 1)) ELSE s

TrimSpace(s) == TrimRight(TrimLeft(s))

\* r.resources[scheme] = factory
Bind(m, scheme, factory) ==
    [s \in DOMAIN m \cup {scheme} |-> IF s = scheme THEN factory ELSE m[s]]

\* a Register that looks the scheme up as given and binds the trimmed one
RegisterLooksUpUntrimmed(m, scheme, factory) ==
    IF scheme \in DOMAIN m
    THEN [m |-> m, err |-> WrapError(ErrResourceAlreadyRegistered, scheme)]
    ELSE [m |-> Bind(m, TrimSpace(scheme), factory), err |-> NoError]

\* a Register that binds the scheme as given
RegisterUntrimmed(m, scheme, factory) ==
    IF scheme \in DOMAIN m
    THEN [m |-> m, err |-> WrapError(ErrResourceAlreadyRegistered, scheme)]
    ELSE [m |-> Bind(m, scheme, factory), err |-> NoError]

\* a Register that binds before it looks the scheme up
RegisterBindsBeforeLookup(m, scheme, factory) ==
    LET trimmed == TrimSpace(scheme) IN
    IF trimmed \in DOMAIN m
    THEN [m |-> Bind(m, trimmed, factory),
          err |-> WrapError(ErrResourceAlreadyRegistered, trimmed)]
    ELSE [m |-> Bind(m, trimmed, factory), err |-> NoError]

\* Registry.Register: the map afterwards and the error returned
Register(m, scheme, factory) ==
    LET trimmed == TrimSpace(scheme) IN
    IF trimmed \in DOMAIN m
    THEN [m |-> m, err |-> WrapError(ErrResourceAlreadyRegistered, trimmed)]
    ELSE [m |-> Bind(m, trimmed, factory), err |-> NoError]

\* a List that allocates len(r.resources) elements and then appends the keys
ListPadded(m) ==
    {[i \in 1..(2 * Cardinality(DOMAIN m)) |->
        IF i <= Cardinality(DOMAIN m) THEN <<>>
        ELSE f[i - Cardinality(DOMAIN m)]] :
        f \in {g \in [1..Cardinality(DOMAIN m) -> DOMAIN m] :
                \A i, j \in DOMAIN g : i # j => g[i] # g[j]}}

\* Registry.List: the slices it can return. It appends every key of the map
\* to an empty slice, in the order the map's iteration yields them, which Go
\* leaves open.
List(m) ==
    {f \in [1..Cardinality(DOMAIN m) -> DOMAIN m] :
        \A i, j \in DOMAIN f : i # j => f[i] # f[j]}

\* no factory was called
NoFactory == "none"

\* a Resolve that looks up the text before the first colon, then parses
ResolveLooksUpFirst(m, location) ==
    LET prefix == SubSeq(location, 1, IndexFrom(location, ":", 1) - 1)
        u == urlParse(location) IN
    IF prefix \in DOMAIN m
    THEN [rsc |-> ApplyFactory(m[prefix], u).rsc,
          err |-> ApplyFactory(m[prefix], u).err,
          called |-> m[prefix]]
    ELSE IF u.err
    THEN [rsc |-> NoResource, err |-> ErrParse, called |-> NoFactory]
    ELSE [rsc |-> NoResource,
          err |-> WrapError(ErrResourceNotFound, u.Scheme),
          called |-> NoFactory]

\* a Resolve with the test of found inverted
ResolveFoundInverted(m, location) ==
    LET u == urlParse(location) IN
    IF u.err
    THEN [rsc |-> NoResource, err |-> ErrParse, called |-> NoFactory]
    ELSE IF u.Scheme \in DOMAIN m
    THEN [rsc |-> NoResource,
          err |-> WrapError(ErrResourceNotFound, u.Scheme),
          called |-> NoFactory]
    ELSE [rsc |-> ApplyFactory("ErrorFactory", u).rsc,
          err |-> ApplyFactory("ErrorFactory", u).err,
          called |-> "ErrorFactory"]

\* a Resolve whose not-found error names no scheme
ResolveNotFoundBare(m, location) ==
    LET u == urlParse(location) IN
    IF u.err
    THEN [rsc |-> NoResource, err |-> ErrParse, called |-> NoFactory]
    ELSE IF u.Scheme \notin DOMAIN m
    THEN [rsc |-> NoResource, err |-> ErrResourceNotFound,
          called |-> NoFactory]
    ELSE [rsc |-> ApplyFactory(m[u.Scheme], u).rsc,
          err |-> ApplyFactory(m[u.Scheme], u).err,
          called |-> m[u.Scheme]]

\* a Resolve that reports a failed factory as a scheme that is not bound
ResolveHidesFactoryError(m, location) ==
    LET u == urlParse(location) IN
    IF u.err
    THEN [rsc |-> NoResource, err |-> ErrParse, called |-> NoFactory]
    ELSE IF u.Scheme \notin DOMAIN m
    THEN [rsc |-> NoResource,
          err |-> WrapError(ErrResourceNotFound, u.Scheme),
          called |-> NoFactory]
    ELSE IF ApplyFactory(m[u.Scheme], u).err # NoError
    THEN [rsc |-> NoResource,
          err |-> WrapError(ErrResourceNotFound, u.Scheme),
          called |-> m[u.Scheme]]
    ELSE [rsc |-> ApplyFactory(m[u.Scheme], u).rsc,
          err |-> NoError,
          called |-> m[u.Scheme]]

\* Registry.Resolve: parse, look the scheme up, build the resource; with the
\* resource and the error returned, the factory that was called.
Resolve(m, location) ==
    LET u == urlParse(location) IN
    IF u.err
    THEN [rsc |-> NoResource, err |-> ErrParse, called |-> NoFactory]
    ELSE IF u.Scheme \notin DOMAIN m
    THEN [rsc |-> NoResource,
          err |-> WrapError(ErrResourceNotFound, u.Scheme),
          called |-> NoFactory]
    ELSE [rsc |-> ApplyFactory(m[u.Scheme], u).rsc,
          err |-> ApplyFactory(m[u.Scheme], u).err,
          called |-> m[u.Scheme]]

(***************************************************************************)
(* Options.                                                                *)
(***************************************************************************)
\* the defaults of newOptions: seconds, attempts, and the two factors in
\* tenths (1.5 and 0.5)
DefaultInterval == 5
DefaultMaxInterval == 60
DefaultAttempts == 5
DefaultMultiplier == 15
DefaultRandomizationFactor == 5

\* time.Second in the model's unit of time, the millisecond
Second == 1000

\* The width of the model's integers.  time.Duration is an int64 count of
\* nanoseconds and the setters take a uint64; the model counts milliseconds
\* in signed integers of DurationBits bits and takes unsigned arguments of
\* as many bits, so that the arithmetic wraps as the code's does, at values
\* the checker can hold.
DurationBits == 20

\* the largest argument of a setter: math.MaxUint64 at the model's width
MaxUint == 2^DurationBits - 1

\* a conversion to time.Duration, or a product of durations: the value
\* modulo 2^DurationBits, read as a signed integer
Duration(x) ==
    LET m == x % (2^DurationBits) IN
    IF m >= 2^(DurationBits - 1) THEN m - 2^DurationBits ELSE m

\* a setter names its argument, the field it assigns and the value assigned:
\* time.Duration(interval) * time.Second for a number of seconds
WithInterval(interval) ==
    [arg |-> interval, field |-> "interval",
     value |-> Duration(Duration(interval) * Second)]
WithMaxInterval(interval) ==
    [arg |-> interval, field |-> "maxInterval",
     value |-> Duration(Duration(interval) * Second)]
WithAttempts(attempts) ==
    [arg |-> attempts, field |-> "attempts", value |-> attempts]
WithMultiplier(multiplier) ==
    [arg |-> multiplier, field |-> "multiplier", value |-> multiplier]
WithRandomizationFactor(factor) ==
    [arg |-> factor, field |-> "randomizationFactor", value |-> factor]

\* a setter overwrites its own field
ApplySetter(o, setter) == [o EXCEPT ![setter.field] = setter.value]

RECURSIVE ApplySetters(_, _)
ApplySetters(o, setters) ==
    IF setters = <<>> THEN o
    ELSE ApplySetters(ApplySetter(o, Head(setters)), Tail(setters))

\* a newOptions that starts from the zero value of the struct
newOptionsZeroValue(setters) ==
    ApplySetters([interval |-> 0, maxInterval |-> 0, attempts |-> 0,
                  multiplier |-> 0, randomizationFactor |-> 0], setters)

newOptions(setters) ==
    ApplySetters([interval |-> DefaultInterval * Second,
                  maxInterval |-> DefaultMaxInterval * Second,
                  attempts |-> DefaultAttempts,
                  multiplier |-> DefaultMultiplier,
                  randomizationFactor |-> DefaultRandomizationFactor],
                 setters)

(***************************************************************************)
(* The backoff of testInternal: backoff.NewExponentialBackOff() with its   *)
(* InitialInterval and MaxInterval assigned from the options, inside       *)
(* WithMaxRetries(b, opts.attempts).  Durations are in milliseconds,       *)
(* factors in tenths.                                                      *)
(*   Reset:        currentInterval = InitialInterval                       *)
(*   NextBackOff:  defer incrementCurrentInterval();                       *)
(*                 return getRandomValueFromInterval(RandomizationFactor,  *)
(*                                       rand.Float64(), currentInterval)  *)
(*   getRandomValueFromInterval:  delta = factor * currentInterval;        *)
(*                 min = currentInterval - delta; max = currentInterval +  *)
(*                 delta; return min + random * (max - min + 1)            *)
(*   incrementCurrentInterval:  if currentInterval >= MaxInterval /        *)
(*                 Multiplier { currentInterval = MaxInterval } else       *)
(*                 { currentInterval = currentInterval * Multiplier }      *)
(***************************************************************************)
\* the factors NewExponentialBackOff sets, in tenths: backoff's
\* DefaultMultiplier (1.5) and DefaultRandomizationFactor (0.5)
BackoffDefaultMultiplier == 15
BackoffDefaultRandomizationFactor == 5

\* the backoff testInternal builds from the options it was handed
RetryBackOff(o) ==
    [InitialInterval |-> o.interval,
     MaxInterval |-> o.maxInterval,
     Multiplier |-> BackoffDefaultMultiplier,
     RandomizationFactor |-> BackoffDefaultRandomizationFactor,
     maxTries |-> o.attempts]

\* the draws of rand.Float64() the model considers: 0, 1/2 and the largest
\* value below 1, in halves
RandomDraws == {0, 1, 2}

\* the interval a draw selects in [current - delta, current + delta]
getRandomValueFromInterval(randomizationFactor, random, currentInterval) ==
    LET delta == (randomizationFactor * currentInterval) \div 10
        minInterval == currentInterval - delta
        maxInterval == currentInterval + delta IN
    minInterval + (random * (maxInterval - minInterval)) \div 2

\* the current interval after a wait
incrementCurrentInterval(b, currentInterval) ==
    IF currentInterval * b.Multiplier >= b.MaxInterval * 10
    THEN b.MaxInterval
    ELSE (currentInterval * b.Multiplier) \div 10

(***************************************************************************)
(* A call of Test as its retry policy sees it: the options snapshot, the   *)
(* backoff built from it, and the waits between the invocations of a check *)
(* that keeps failing.                                                     *)
(***************************************************************************)
\* the calls of Test that run at the same time
MaxCalls == 2

\* a call that has not begun
NoCall ==
    [pc |-> "idle", setters |-> <<>>, opts |-> newOptions(<<>>),
     b |-> RetryBackOff(newOptions(<<>>)), currentInterval |-> 0,
     invoked |-> 0, waited |-> <<>>, why |-> "running"]

\* Test: opts := newOptions(setters)
NewCall(setters) ==
    [NoCall EXCEPT !.pc = "called", !.setters = setters,
                   !.opts = newOptions(setters)]

\* options kept in a field of the Runner, which every call in flight reads
StoreCallShared(p, c, call) ==
    [d \in DOMAIN p |->
        IF d = c THEN call
        ELSE IF p[d].pc = "idle" THEN p[d]
        ELSE [p[d] EXCEPT !.opts = call.opts]]

\* opts is a variable of the call: no other call sees it
StoreCall(p, c, call) == [p EXCEPT ![c] = call]

(***************************************************************************)
(* The inputs of the model.                                                *)
(***************************************************************************)
LocSuccess == <<"t", ":", "/", "/", "s">>
LocFailure == <<"t", ":", "/", "/", "f">>
LocFlaky == <<"t", ":", "/", "/", "k">>
LocBadHost == <<"t", ":", "/", "/", "x">>
LocUnknown == <<"u", ":", "/", "/", "s">>
LocInvalid == <<":", "/", "/", "s">>

SampleLocations ==
    <<LocSuccess, LocFailure, LocFlaky, LocBadHost, LocUnknown, LocInvalid>>

\* The lists handed to Test: the goroutines of a call are spawned together
\* and differ only in their location, so one order of each multiset of
\* sample locations stands for all its orders.
SortedIndexLists ==
    UNION {{s \in [1..n -> DOMAIN SampleLocations] :
               \A i \in 1..n, j \in 1..n : i <= j => s[i] <= s[j]}
           : n \in 0..MaxResources}

ResourceLists ==
    {[i \in DOMAIN s |-> SampleLocations[s[i]]] : s \in SortedIndexLists}

\* the configuration the tests hand to New
TestConfig == [Scheme |-> {<<"t">>}, Factory |-> "MockResourceFactory"]

\* configurations New accepts as well: a nil factory, as Use returns it for
\* a module without one, and a factory that returns nil and no error
NilFactoryConfig == [Scheme |-> {<<"t">>}, Factory |-> NilFactory]
NilResourceConfig == [Scheme |-> {<<"t">>}, Factory |-> "NilResourceFactory"]

\* The model stops a retry loop with unlimited attempts (attempts = 0) after
\* this many invocations: its timer no longer fires.
MaxUnlimitedCalls == 2

(***************************************************************************)
(* State.                                                                  *)
(***************************************************************************)
VARIABLES
    registry,     \* Runner.registry.resources: scheme -> factory
    mainPc,       \* the caller of Test: "idle", "collect", "returned"
    resources,    \* Test's argument: the list of locations
    opts,         \* the options snapshot of the call
    ctxDone,      \* whether ctx.Done() is closed
    pc,           \* per location, where its goroutine stands
    rsc,          \* per location, the resource Resolve returned
    lastErr,      \* per location, the last error of Resolve or of the check
    calls,        \* per location, the check invocations started so far
    waits,        \* per location, the backoff waits begun so far
    resolves,     \* per location, the calls of Registry.Resolve so far
    why,          \* per location, what ended its evaluation
    afterCancel,  \* per location, the check invocations started after ctx was done
    output,       \* the result channel's buffer
    closed,       \* whether the result channel is closed
    wg,           \* the WaitGroup's counter
    buff,         \* what Test has written to its buffer: the errors received
    ret,          \* what Test returned
    panicked,     \* whether a goroutine panicked (the process is gone)
    run,          \* Runner.Run, when it is Run that called Test
    regOp,        \* the last call on the Registry, its arguments and results
    policy        \* per call of Test, its options and the waits of its backoff

vars == <<registry, mainPc, resources, opts, ctxDone, pc, rsc, lastErr, calls,
          waits, resolves, why, afterCancel, output, closed, wg, buff, ret,
          panicked, run, regOp, policy>>

\* the state of a call of Test
testVars == <<mainPc, resources, opts, ctxDone, pc, rsc, lastErr, calls, waits,
              resolves, why, afterCancel, output, closed, wg, buff, ret,
              panicked>>

workerVars == <<pc, rsc, lastErr, calls, waits, resolves, why, afterCancel>>

Locs == 1..Len(resources)

\* a call on the Registry, as regOp records it
RegistryCall(op, configs, scheme, factory, location, result) ==
    [op |-> op, configs |-> configs, scheme |-> scheme, factory |-> factory,
     location |-> location, rsc |-> result.rsc, err |-> result.err,
     called |-> result.called, list |-> <<>>]

NoResult == [rsc |-> NoResource, err |-> NoError, called |-> NoFactory]

\* newRegistry(configs), called by New
NewRegistryCall(configs) ==
    RegistryCall("newRegistry", configs, <<>>, NoFactory, <<>>, NoResult)

\* Run before its call of Test has returned
NoProgram == "none"
NoOutput == "nil"
RunIdle ==
    [pc |-> "test", started |-> FALSE, exe |-> NoProgram, out |-> NoOutput,
     err |-> NoError]

\* no call of Test or Run has been made
TestIdle ==
    /\ mainPc = "idle"
    /\ resources = <<>>
    /\ opts = newOptions(<<>>)
    /\ ctxDone = FALSE
    /\ pc = <<>>
    /\ rsc = <<>>
    /\ lastErr = <<>>
    /\ calls = <<>>
    /\ waits = <<>>
    /\ resolves = <<>>
    /\ why = <<>>
    /\ afterCancel = <<>>
    /\ output = <<>>
    /\ closed = FALSE
    /\ wg = 0
    /\ buff = <<>>
    /\ ret = NoError
    /\ panicked = FALSE
    /\ run = RunIdle
    /\ policy = [c \in 1..MaxCalls |-> NoCall]

Init ==
    /\ registry = newRegistry(<<TestConfig>>)
    /\ regOp = NewRegistryCall(<<TestConfig>>)
    /\ run = RunIdle
    /\ policy = [c \in 1..MaxCalls |-> NoCall]
    /\ mainPc = "idle"
    /\ resources = <<>>
    /\ opts = newOptions(<<>>)
    /\ ctxDone = FALSE
    /\ pc = <<>>
    /\ rsc = <<>>
    /\ lastErr = <<>>
    /\ calls = <<>>
    /\ waits = <<>>
    /\ resolves = <<>>
    /\ why = <<>>
    /\ afterCancel = <<>>
    /\ output = <<>>
    /\ closed = FALSE
    /\ wg = 0
    /\ buff = <<>>
    /\ ret = NoError
    /\ panicked = FALSE

(***************************************************************************)
(* Runner.Test and testAllInternal: the options snapshot, wg.Add, the      *)
(* channel of capacity len(resources), one goroutine per resource and the  *)
(* goroutine that closes the channel.                                      *)
(***************************************************************************)
CallTest ==
    /\ mainPc = "idle"
    /\ ~panicked
    /\ \E rs \in ResourceLists, a \in 0..MaxAttempts :
        /\ resources' = rs
        /\ opts' = newOptions(<<WithAttempts(a)>>)
        /\ pc' = [l \in 1..Len(rs) |-> "spawned"]
        /\ rsc' = [l \in 1..Len(rs) |-> NoResource]
        /\ lastErr' = [l \in 1..Len(rs) |-> NoError]
        /\ calls' = [l \in 1..Len(rs) |-> 0]
        /\ waits' = [l \in 1..Len(rs) |-> 0]
        /\ resolves' = [l \in 1..Len(rs) |-> 0]
        /\ why' = [l \in 1..Len(rs) |-> "running"]
        /\ afterCancel' = [l \in 1..Len(rs) |-> 0]
        /\ wg' = Len(rs)
    /\ output' = <<>>
    /\ closed' = FALSE
    /\ buff' = <<>>
    /\ mainPc' = "collect"
    /\ UNCHANGED <<registry, ctxDone, ret, panicked>>
    /\ UNCHANGED <<run, regOp, policy>>

(***************************************************************************)
(* The context.  Closing Done wakes every goroutine parked in Retry's      *)
(* select with that case.                                                  *)
(***************************************************************************)
\* a select that waits for the timer alone
SelectOnTimerOnly(p) == p

SelectOnDone(p) == IF p = "wait" THEN "cancelled" ELSE p

Cancel ==
    /\ ~ctxDone
    /\ mainPc # "returned"
    /\ ~panicked
    /\ ctxDone' = TRUE
    /\ pc' = [l \in DOMAIN pc |-> SelectOnDone(pc[l])]
    /\ UNCHANGED <<registry, mainPc, resources, opts, rsc, lastErr, calls, waits,
                   resolves, why, afterCancel, output, closed, wg, buff, ret,
                   panicked>>
    /\ UNCHANGED <<run, regOp, policy>>

(***************************************************************************)
(* testInternal and backoff.Retry, per location.                           *)
(***************************************************************************)
\* Resolve's error dropped
ResolveErrorIgnored(r) == FALSE

\* testInternal returns Resolve's error without entering Retry
ResolveFailed(r) == r.err # NoError

\* the test of the operation's result inverted
OperationSucceededInverted(e) == e # NoError

\* Retry returns nil as soon as the operation succeeds
OperationSucceeded(e) == e = NoError

\* backOffTries: numTries counts the NextBackOff calls that were let through,
\* one per failed invocation so far except the present one
numTries(l) == calls[l] - 1

\* a limit compared with < where the library compares with <=
MaxTriesReachedLate(maxTries, tries) == maxTries > 0 /\ maxTries < tries

MaxTriesReached(maxTries, tries) == maxTries > 0 /\ maxTries <= tries

\* a backoff that never looks at the context
NextBackOffIgnoresContext(l) ==
    IF MaxTriesReached(opts.attempts, numTries(l)) THEN {"exhausted"}
    ELSE {"elapsed", "deadline", "wait"}

\* a backoff that gives up as soon as another location has failed
NextBackOffFailFast(l) ==
    IF ctxDone \/ \E m \in Locs : m # l /\ why[m] \notin {"running", "ok"}
    THEN {"cancelled"}
    ELSE IF MaxTriesReached(opts.attempts, numTries(l)) THEN {"exhausted"}
    ELSE {"elapsed", "deadline", "wait"}

\* What NextBackOff can answer after a failed invocation: "wait" for an
\* interval, or Stop for the reason named.
NextBackOff(l) ==
    IF ctxDone THEN {"cancelled"}
    ELSE IF MaxTriesReached(opts.attempts, numTries(l)) THEN {"exhausted"}
    ELSE {"elapsed", "deadline", "wait"}

\* an invocation of the check begins
StartOperation(l) ==
    /\ calls' = [calls EXCEPT ![l] = @ + 1]
    /\ afterCancel' = [afterCancel EXCEPT ![l] = IF ctxDone THEN @ + 1 ELSE @]

\* the goroutine starts: Resolve, and on success Retry's first invocation
ResolveStep(l) ==
    /\ mainPc = "collect" /\ ~panicked
    /\ pc[l] = "spawned"
    /\ LET r == Resolve(registry, resources[l]) IN
       IF CallPanics(r.called)
       THEN /\ panicked' = TRUE
            /\ UNCHANGED <<resolves, lastErr, why, pc, rsc, calls, afterCancel>>
       ELSE /\ resolves' = [resolves EXCEPT ![l] = @ + 1]
            /\ UNCHANGED panicked
            /\ IF ResolveFailed(r)
               THEN /\ lastErr' = [lastErr EXCEPT ![l] = r.err]
                    /\ why' = [why EXCEPT ![l] = "resolve"]
                    /\ pc' = [pc EXCEPT ![l] = "send"]
                    /\ UNCHANGED <<rsc, calls, afterCancel>>
               ELSE /\ rsc' = [rsc EXCEPT ![l] = r.rsc]
                    /\ pc' = [pc EXCEPT ![l] = "checking"]
                    /\ StartOperation(l)
                    /\ UNCHANGED <<lastErr, why>>
    /\ UNCHANGED <<registry, mainPc, resources, opts, ctxDone, waits, output,
                   closed, wg, buff, ret>>
    /\ UNCHANGED <<run, regOp, policy>>

\* a retry loop that keeps the first failure of the check and reports it
CheckKeepsFirstError(l) ==
    /\ mainPc = "collect" /\ ~panicked
    /\ pc[l] = "checking"
    /\ LET e == ResourceTest(rsc[l], calls[l]) IN
       /\ lastErr' = [lastErr EXCEPT ![l] =
                        IF @ # NoError /\ e # NoError THEN @ ELSE e]
       /\ IF OperationSucceeded(e)
          THEN /\ why' = [why EXCEPT ![l] = "ok"]
               /\ pc' = [pc EXCEPT ![l] = "send"]
               /\ UNCHANGED waits
          ELSE \E next \in NextBackOff(l) :
               IF next = "wait"
               THEN /\ pc' = [pc EXCEPT ![l] = "wait"]
                    /\ waits' = [waits EXCEPT ![l] = @ + 1]
                    /\ UNCHANGED why
               ELSE /\ why' = [why EXCEPT ![l] = next]
                    /\ pc' = [pc EXCEPT ![l] = "send"]
                    /\ UNCHANGED waits
    /\ UNCHANGED <<registry, mainPc, resources, opts, ctxDone, rsc, calls,
                   resolves, afterCancel, output, closed, wg, buff, ret, panicked>>
    /\ UNCHANGED <<run, regOp, policy>>

\* a retry loop that sleeps for the interval before it looks at the limit
CheckWaitsBeforeStop(l) ==
    /\ mainPc = "collect" /\ ~panicked
    /\ pc[l] = "checking"
    /\ LET e == ResourceTest(rsc[l], calls[l]) IN
       /\ lastErr' = [lastErr EXCEPT ![l] = e]
       /\ IF OperationSucceeded(e)
          THEN /\ why' = [why EXCEPT ![l] = "ok"]
               /\ pc' = [pc EXCEPT ![l] = "send"]
               /\ UNCHANGED waits
          ELSE \E next \in NextBackOff(l) :
               IF next = "wait"
               THEN /\ pc' = [pc EXCEPT ![l] = "wait"]
                    /\ waits' = [waits EXCEPT ![l] = @ + 1]
                    /\ UNCHANGED why
               ELSE /\ why' = [why EXCEPT ![l] = next]
                    /\ pc' = [pc EXCEPT ![l] = "send"]
                    /\ waits' = [waits EXCEPT ![l] = @ + 1]
    /\ UNCHANGED <<registry, mainPc, resources, opts, ctxDone, rsc, calls,
                   resolves, afterCancel, output, closed, wg, buff, ret, panicked>>
    /\ UNCHANGED <<run, regOp, policy>>

\* the check returns: done on success, else NextBackOff decides; rsc.Test on
\* a nil resource panics
CheckReturns(l) ==
    /\ mainPc = "collect" /\ ~panicked
    /\ pc[l] = "checking"
    /\ IF rsc[l] = NoResource
       THEN /\ panicked' = TRUE
            /\ UNCHANGED <<lastErr, why, pc, waits>>
       ELSE LET e == ResourceTest(rsc[l], calls[l]) IN
            /\ UNCHANGED panicked
            /\ lastErr' = [lastErr EXCEPT ![l] = e]
            /\ IF OperationSucceeded(e)
               THEN /\ why' = [why EXCEPT ![l] = "ok"]
                    /\ pc' = [pc EXCEPT ![l] = "send"]
                    /\ UNCHANGED waits
               ELSE \E next \in NextBackOff(l) :
                    IF next = "wait"
                    THEN /\ pc' = [pc EXCEPT ![l] = "wait"]
                         /\ waits' = [waits EXCEPT ![l] = @ + 1]
                         /\ UNCHANGED why
                    ELSE /\ why' = [why EXCEPT ![l] = next]
                         /\ pc' = [pc EXCEPT ![l] = "send"]
                         /\ UNCHANGED waits
    /\ UNCHANGED <<registry, mainPc, resources, opts, ctxDone, rsc, calls,
                   resolves, afterCancel, output, closed, wg, buff, ret>>
    /\ UNCHANGED <<run, regOp, policy>>

\* the timer fires while the goroutine is parked in select
TimerFires(l) ==
    /\ mainPc = "collect" /\ ~panicked
    /\ pc[l] = "wait"
    /\ opts.attempts > 0 \/ calls[l] < MaxUnlimitedCalls
    /\ pc' = [pc EXCEPT ![l] = "retry"]
    /\ UNCHANGED <<registry, mainPc, resources, opts, ctxDone, rsc, lastErr,
                   calls, waits, resolves, why, afterCancel, output, closed, wg,
                   buff, ret, panicked>>
    /\ UNCHANGED <<run, regOp, policy>>

\* a retry that resolves the location again before it runs the check
RetryResolvesAgain(l) ==
    /\ mainPc = "collect" /\ ~panicked
    /\ pc[l] = "retry"
    /\ pc' = [pc EXCEPT ![l] = "checking"]
    /\ resolves' = [resolves EXCEPT ![l] = @ + 1]
    /\ rsc' = [rsc EXCEPT ![l] = Resolve(registry, resources[l]).rsc]
    /\ StartOperation(l)
    /\ UNCHANGED <<registry, mainPc, resources, opts, ctxDone, lastErr,
                   waits, why, output, closed, wg, buff, ret, panicked>>
    /\ UNCHANGED <<run, regOp, policy>>

\* woken by the timer, the loop invokes the check again
RetryStep(l) ==
    /\ mainPc = "collect" /\ ~panicked
    /\ pc[l] = "retry"
    /\ pc' = [pc EXCEPT ![l] = "checking"]
    /\ StartOperation(l)
    /\ UNCHANGED <<registry, mainPc, resources, opts, ctxDone, rsc, lastErr,
                   waits, resolves, why, output, closed, wg, buff, ret, panicked>>
    /\ UNCHANGED <<run, regOp, policy>>

\* woken by ctx.Done(), Retry returns the last error
AbortWait(l) ==
    /\ mainPc = "collect" /\ ~panicked
    /\ pc[l] = "cancelled"
    /\ why' = [why EXCEPT ![l] = "cancelled"]
    /\ pc' = [pc EXCEPT ![l] = "send"]
    /\ UNCHANGED <<registry, mainPc, resources, opts, ctxDone, rsc, lastErr,
                   calls, waits, resolves, afterCancel, output, closed, wg, buff,
                   ret, panicked>>
    /\ UNCHANGED <<run, regOp, policy>>

\* output <- testInternal(...), then the deferred wg.Done(), which nothing but
\* the closing goroutine observes.  A send on a closed channel panics; the
\* buffer holds len(resources) values, so the send does not block.
Send(l) ==
    /\ mainPc = "collect" /\ ~panicked
    /\ pc[l] = "send"
    /\ Len(output) < Len(resources)
    /\ IF closed
       THEN /\ panicked' = TRUE
            /\ UNCHANGED <<output, pc, wg>>
       ELSE /\ output' = Append(output, [loc |-> l, err |-> lastErr[l]])
            /\ wg' = wg - 1
            /\ pc' = [pc EXCEPT ![l] = "done"]
            /\ UNCHANGED panicked
    /\ UNCHANGED <<registry, mainPc, resources, opts, ctxDone, rsc, lastErr,
                   calls, waits, resolves, why, afterCancel, closed, buff, ret>>
    /\ UNCHANGED <<run, regOp, policy>>

\* a WaitGroup that was given one task too few
WaitReturnsEarly(counter) == counter <= 1

\* a WaitGroup whose Add runs inside the goroutines: Wait can return before
\* any of them is counted
WaitReturnsAtOnce(counter) == TRUE

\* a WaitGroup that was given one task too many: its counter never is zero
WaitReturnsOneTooMany(counter) == counter + 1 = 0

\* wg.Wait() returns when the counter is zero
WaitReturns(counter) == counter = 0

\* the closing goroutine: wg.Wait(); close(output)
Close ==
    /\ mainPc = "collect" /\ ~panicked
    /\ ~closed
    /\ WaitReturns(wg)
    /\ closed' = TRUE
    /\ UNCHANGED <<registry, mainPc, resources, opts, ctxDone, workerVars,
                   output, wg, buff, ret, panicked>>
    /\ UNCHANGED <<run, regOp, policy>>

\* every received value written, nil or not
WriteErrorAlways(b, item) == Append(b, item)

\* Test's loop body: only a non-nil error is written
WriteError(b, item) == IF item.err # NoError THEN Append(b, item) ELSE b

\* for err := range output
Receive ==
    /\ mainPc = "collect" /\ ~panicked
    /\ output # <<>>
    /\ buff' = WriteError(buff, Head(output))
    /\ output' = Tail(output)
    /\ UNCHANGED <<registry, mainPc, resources, opts, ctxDone, workerVars,
                   closed, wg, ret, panicked>>
    /\ UNCHANGED <<run, regOp, policy>>

\* buff.String(): the messages written, each followed by ";"
RECURSIVE BuffString(_)
BuffString(b) ==
    IF b = <<>> THEN <<>>
    ELSE ErrorMessage(Head(b).err) \o <<";">> \o BuffString(Tail(b))

\* a Test that reports an empty buffer as a failure
TestResultFailsOnEmpty(b) ==
    IF Len(b) # 0 THEN NoError ELSE FormatError(ErrWait, BuffString(b))

\* what Test returns for its buffer
TestResult(b) ==
    IF Len(b) # 0 THEN FormatError(ErrWait, BuffString(b)) ELSE NoError

\* the range loop ends when the channel is closed and drained
Return ==
    /\ mainPc = "collect" /\ ~panicked
    /\ output = <<>>
    /\ closed
    /\ ret' = TestResult(buff)
    /\ mainPc' = "returned"
    /\ UNCHANGED <<registry, resources, opts, ctxDone, workerVars, output,
                   closed, wg, buff, panicked>>
    /\ UNCHANGED <<run, regOp, policy>>

(***************************************************************************)
(* Runner.Run: Test on program.Resources, then the program.  Test runs the *)
(* same whoever calls it, so Run is modelled from the return of Test on.   *)
(***************************************************************************)
ErrExecNotFound == NewError("exec: executable file not found in $PATH")
ErrExitStatus == NewError("exit status 1")

\* the programs of the model: the tests' "echo hello" and
\* "nonexistent-command", and a program that writes and exits with status 1
Executables == {"echo", "nonexistent-command", "false"}

\* exec.Command(program.Executable, program.Args...).CombinedOutput()
CombinedOutput(exe) ==
    IF exe = "echo" THEN [out |-> "hello", err |-> NoError]
    ELSE IF exe = "false" THEN [out |-> "oops", err |-> ErrExitStatus]
    ELSE [out |-> NoOutput, err |-> ErrExecNotFound]

\* a Run that goes on whatever Test returned
TestErrorIgnored(err) == FALSE

\* if err != nil { return nil, err }
TestFailed(err) == err # NoError

\* a Run that reports the program's failure as a failure to wait
ReturnAsWaitFailure(result) ==
    [out |-> result.out,
     err |-> IF result.err # NoError
             THEN FormatError(ErrWait, ErrorMessage(result.err))
             ELSE NoError]

\* return cmd.CombinedOutput()
ReturnOutput(result) == result

\* Run, once its call of Test has returned
Run ==
    /\ mainPc = "returned" /\ ~panicked
    /\ run.pc = "test"
    /\ IF TestFailed(ret)
       THEN run' = [pc |-> "returned", started |-> FALSE, exe |-> NoProgram,
                    out |-> NoOutput, err |-> ret]
       ELSE \E exe \in Executables :
            LET result == ReturnOutput(CombinedOutput(exe)) IN
            run' = [pc |-> "returned", started |-> TRUE, exe |-> exe,
                    out |-> result.out, err |-> result.err]
    /\ UNCHANGED <<registry, testVars, regOp, policy>>

Next ==
    \/ CallTest
    \/ Cancel
    \/ \E l \in Locs : ResolveStep(l)
    \/ \E l \in Locs : CheckReturns(l)
    \/ \E l \in Locs : TimerFires(l)
    \/ \E l \in Locs : RetryStep(l)
    \/ \E l \in Locs : AbortWait(l)
    \/ \E l \in Locs : Send(l)
    \/ Close
    \/ Receive
    \/ Return
    \/ Run

Spec == Init /\ [][Next]_vars

\* a Runner built from any of the three configurations
ConfiguredInit ==
    /\ \E config \in {TestConfig, NilFactoryConfig, NilResourceConfig} :
        /\ registry = newRegistry(<<config>>)
        /\ regOp = NewRegistryCall(<<config>>)
    /\ TestIdle

ConfiguredSpec == ConfiguredInit /\ [][Next]_vars

\* Every goroutine that can take a step eventually takes it, every check
\* invocation returns and every timer fires; the caller and the context's
\* owner are not obliged to act.
WorkerStep(l) ==
    \/ ResolveStep(l)
    \/ CheckReturns(l)
    \/ TimerFires(l)
    \/ RetryStep(l)
    \/ AbortWait(l)
    \/ Send(l)

FairSpec ==
    /\ Spec
    /\ \A l \in 1..MaxResources : WF_vars(l \in Locs /\ WorkerStep(l))
    /\ WF_vars(Close)
    /\ WF_vars(Receive)
    /\ WF_vars(Return)

(***************************************************************************)
(* The retry policy on its own: calls of Test with any options on one      *)
(* location whose check keeps failing, with the waits the backoff draws.   *)
(* BackoffSpec is one call with many options, ConcurrentSpec several calls *)
(* at the same time with options that differ.                              *)
(***************************************************************************)
\* the waits of a call the model follows
MaxWaits == 3
\* the longest list of setters handed to Test
MaxSetters == 2

\* the least number of seconds whose count of milliseconds does not fit the
\* model's time.Duration
OverflowSeconds == (2^(DurationBits - 1)) \div Second + 1

\* the setters of the tests and some more: an interval above the default
\* maximum, a maximum below the default interval, no limit of attempts, a
\* number of seconds beyond the range of time.Duration, the largest argument
SampleSetters ==
    {WithInterval(1), WithInterval(90), WithMaxInterval(1),
     WithMultiplier(25), WithRandomizationFactor(3),
     WithInterval(OverflowSeconds), WithMaxInterval(MaxUint)}
        \cup {WithAttempts(a) : a \in 0..MaxAttempts}

SetterLists == UNION {[1..n -> SampleSetters] : n \in 0..MaxSetters}

\* options that differ from call to call
ConcurrentSetterLists ==
    {<<WithAttempts(1)>>,
     <<WithAttempts(2), WithInterval(1)>>,
     <<WithInterval(2), WithMaxInterval(1), WithAttempts(1)>>}

\* Runner.Test begins: the options snapshot
PolicyTest(c, lists) ==
    /\ policy[c].pc = "idle"
    /\ \E setters \in lists :
        policy' = StoreCall(policy, c, NewCall(setters))
    /\ UNCHANGED <<registry, testVars, run, regOp>>

\* testInternal, handed the options by value, builds the backoff; Retry
\* resets it
PolicyRetry(c) ==
    /\ policy[c].pc = "called"
    /\ LET b == RetryBackOff(policy[c].opts) IN
       policy' = [policy EXCEPT ![c].b = b,
                                ![c].currentInterval = b.InitialInterval,
                                ![c].pc = "checking"]
    /\ UNCHANGED <<registry, testVars, run, regOp>>

\* an invocation of the check fails: the backoff stops, or the goroutine
\* waits for the interval drawn
PolicyCheckFails(c) ==
    /\ policy[c].pc = "checking"
    /\ LET call == policy[c] IN
       IF MaxTriesReached(call.b.maxTries, call.invoked)
       THEN policy' = [policy EXCEPT ![c].invoked = @ + 1,
                                     ![c].pc = "done",
                                     ![c].why = "exhausted"]
       ELSE \/ policy' = [policy EXCEPT ![c].invoked = @ + 1,
                                        ![c].pc = "done",
                                        ![c].why = "elapsed"]
            \/ /\ Len(call.waited) < MaxWaits
               /\ \E random \in RandomDraws :
                    policy' =
                        [policy EXCEPT
                            ![c].invoked = @ + 1,
                            ![c].waited =
                                Append(@, getRandomValueFromInterval(
                                              call.b.RandomizationFactor,
                                              random, call.currentInterval)),
                            ![c].currentInterval =
                                incrementCurrentInterval(call.b, @)]
    /\ UNCHANGED <<registry, testVars, run, regOp>>

PolicyInit ==
    /\ registry = newRegistry(<<TestConfig>>)
    /\ regOp = NewRegistryCall(<<TestConfig>>)
    /\ TestIdle

BackoffNext ==
    \/ PolicyTest(1, SetterLists)
    \/ PolicyRetry(1)
    \/ PolicyCheckFails(1)

BackoffSpec == PolicyInit /\ [][BackoffNext]_vars

ConcurrentNext ==
    \/ \E c \in 1..MaxCalls : PolicyTest(c, ConcurrentSetterLists)
    \/ \E c \in 1..MaxCalls : PolicyRetry(c)
    \/ \E c \in 1..MaxCalls : PolicyCheckFails(c)

ConcurrentSpec == PolicyInit /\ [][ConcurrentNext]_vars

(***************************************************************************)
(* The Registry on its own: built by newRegistry from a list of            *)
(* configurations, then Register, Resolve and List in any order.           *)
(***************************************************************************)
\* the longest list of configurations handed to newRegistry
MaxConfigs == 2

\* the factories of the tests
Factories == {"MockResourceFactory", "TestResourceFactory", "ErrorFactory"}

\* the schemes handed to Register: bound by the test configuration or not,
\* in upper case, wrapped in white space, nothing but white space
SampleSchemes ==
    {<<"t">>, <<"u">>, <<"T">>, <<" ", "u", " ">>, <<" ">>}

SampleConfigs ==
    {[Scheme |-> ss, Factory |-> f] :
        ss \in {{<<"t">>}, {<<"t">>, <<"u">>}}, f \in Factories}

ConfigLists ==
    UNION {[1..n -> SampleConfigs] : n \in 0..MaxConfigs}

LocUpper == <<"T", ":", "/", "/", "s">>
LocNoScheme == <<"s">>
LocDigitFirst == <<"1", ":", "s">>
\* the empty resource URL
LocEmpty == <<>>

\* the locations handed to Resolve
RegistryLocations ==
    {SampleLocations[i] : i \in DOMAIN SampleLocations}
        \cup {LocUpper, LocNoScheme, LocDigitFirst, LocEmpty}

RegistryInit ==
    /\ \E configs \in ConfigLists :
        /\ registry = newRegistry(configs)
        /\ regOp = NewRegistryCall(configs)
    /\ TestIdle

\* r.Register(scheme, factory)
RegisterCall ==
    \E scheme \in SampleSchemes, factory \in Factories :
        LET r == Register(registry, scheme, factory) IN
        /\ registry' = r.m
        /\ regOp' = RegistryCall("Register", <<>>, scheme, factory, <<>>,
                                 [rsc |-> NoResource, err |-> r.err,
                                  called |-> NoFactory])
        /\ UNCHANGED <<testVars, run, policy>>

\* r.Resolve(location)
ResolveCall ==
    \E location \in RegistryLocations :
        /\ regOp' = RegistryCall("Resolve", <<>>, <<>>, NoFactory, location,
                                 Resolve(registry, location))
        /\ UNCHANGED <<registry, testVars, run, policy>>

\* r.List()
ListCall ==
    \E list \in List(registry) :
        /\ regOp' = [RegistryCall("List", <<>>, <<>>, NoFactory, <<>>,
                                  NoResult) EXCEPT !.list = list]
        /\ UNCHANGED <<registry, testVars, run, policy>>

RegistryNext ==
    \/ RegisterCall
    \/ ResolveCall
    \/ ListCall

RegistrySpec == RegistryInit /\ [][RegistryNext]_vars

(***************************************************************************)
(* Properties.                                                             *)
(***************************************************************************)
Returned == mainPc = "returned"

\* what Resolve answers for each sample location under the test registry
SampleResolutions ==
    [i \in DOMAIN SampleLocations |->
        Resolve(newRegistry(<<TestConfig>>), SampleLocations[i])]

\* what Resolve answers for location l of the call
Resolution(l) ==
    SampleResolutions[CHOOSE i \in DOMAIN SampleLocations :
                          SampleLocations[i] = resources[l]]

Resolvable(l) == Resolution(l).err = NoError

\* the invocations 1..n of the check of location l all fail
FailsThrough(l, n) ==
    \A i \in 1..n : ResourceTest(Resolution(l).rsc, i) # NoError

\* the check of location l fails on every invocation the model can make
AlwaysFails(l) == Resolvable(l) /\ FailsThrough(l, MaxAttempts + FlakyFails + 2)

\* the check of location l fails exactly k times and then succeeds
FailsExactly(l, k) ==
    /\ Resolvable(l)
    /\ FailsThrough(l, k)
    /\ ResourceTest(Resolution(l).rsc, k + 1) = NoError

\* C1: a resource whose check always fails, under maxAttempts = A >= 1 and a
\* context that is never cancelled (and no time limit ending the loop), makes
\* Test fail with the check invoked exactly A times.
C1_AlwaysFailingInvokedExactlyAttempts ==
    Returned /\ ~ctxDone =>
        \A l \in Locs :
            (AlwaysFails(l) /\ opts.attempts >= 1 /\ why[l] = "exhausted")
                => (ret # NoError /\ calls[l] = opts.attempts)

\* C2: a resource whose check fails exactly K times and then succeeds, under
\* maxAttempts >= K+1 and a context without deadline that is never cancelled,
\* succeeds with the check invoked exactly K+1 times.
C2_FlakySucceedsAfterKPlusOne ==
    Returned /\ ~ctxDone =>
        \A l \in Locs : \A k \in 0..FlakyFails :
            (FailsExactly(l, k) /\ opts.attempts >= k + 1 /\ why[l] # "deadline")
                => (lastErr[l] = NoError /\ calls[l] = k + 1)

\* the check of every location of the call succeeds on its first invocation
AllSucceedAtOnce == \A l \in Locs : FailsExactly(l, 0)

\* C3: when every location's check succeeds on its first attempt, Test
\* returns no error and every check is invoked exactly once, with no retry
\* and no backoff wait at any time.
C3_AllSucceedOnce ==
    AllSucceedAtOnce =>
        /\ \A l \in Locs : calls[l] <= 1 /\ waits[l] = 0
        /\ Returned => (ret = NoError /\ \A l \in Locs : calls[l] = 1)

C3_Witness ==
    /\ Returned
    /\ Len(resources) >= 2
    /\ AllSucceedAtOnce
    /\ ret = NoError
    /\ \A l \in Locs : calls[l] = 1

\* C4: Test is a join: when it has returned, every location's goroutine has
\* delivered its result and ended; none is resolving, checking or waiting.
C4_JoinBeforeReturn ==
    Returned => \A l \in Locs : pc[l] = "done" /\ why[l] # "running"

C4_Witness ==
    /\ Returned
    /\ \E l \in Locs, m \in Locs :
        /\ why[l] = "exhausted" /\ calls[l] = 3
        /\ why[m] = "ok" /\ calls[m] = 2

\* how many errors Test wrote for location l
WrittenFor(l) == Cardinality({i \in DOMAIN buff : buff[i].loc = l})

\* C5: Test returns no error exactly when every location ended in success;
\* its buffer holds exactly one message, the location's own terminal error,
\* for each location that failed and none for a location that succeeded.
C5_AggregateOnePerFailure ==
    Returned =>
        /\ (ret = NoError) <=> (\A l \in Locs : lastErr[l] = NoError)
        /\ \A l \in Locs :
            WrittenFor(l) = (IF lastErr[l] # NoError THEN 1 ELSE 0)
        /\ \A i \in DOMAIN buff : buff[i].err = lastErr[buff[i].loc]

C5_Witness ==
    /\ Returned
    /\ MessageContains(ret, ErrWait)
    /\ Len(buff) = 1
    /\ \E l \in Locs, m \in Locs :
        /\ resources[l] = LocSuccess /\ lastErr[l] = NoError
        /\ resources[m] = LocFailure
        /\ ErrorMessage(lastErr[m]) = ErrorMessage(ErrNotAvailable)

\* the invocation on which the check of a resolvable location first succeeds,
\* counted up to n
RECURSIVE FirstSuccess(_, _, _)
FirstSuccess(l, i, n) ==
    IF i >= n \/ ResourceTest(Resolution(l).rsc, i) = NoError THEN i
    ELSE FirstSuccess(l, i + 1, n)

\* C6: whatever the other locations do (fail to resolve, fail their checks),
\* a location's evaluation ends only for a reason of its own: it is cut
\* short by cancellation only when the context is done, it ends exhausted
\* only after attempts + 1 invocations, it ends in success on the first
\* invocation that succeeds, and a resolution failure ends it unchecked.
C6_NoShortCircuit ==
    \A l \in Locs :
        /\ why[l] = "cancelled" => ctxDone
        /\ why[l] = "exhausted" =>
            /\ opts.attempts > 0
            /\ calls[l] = opts.attempts + 1
            /\ FailsThrough(l, calls[l])
        /\ why[l] = "ok" =>
            calls[l] = FirstSuccess(l, 1, MaxAttempts + FlakyFails + 2)
        /\ why[l] = "resolve" => (~Resolvable(l) /\ calls[l] = 0)
        /\ why[l] \in {"elapsed", "deadline"} =>
            (calls[l] >= 1 /\ FailsThrough(l, calls[l]))

C6_Witness ==
    /\ Returned
    /\ ~ctxDone
    /\ \E l \in Locs, m \in Locs :
        /\ why[m] = "resolve"
        /\ why[l] = "ok" /\ calls[l] = FlakyFails + 1 /\ resources[l] = LocFlaky

\* C7: a location that does not resolve (malformed URL, unbound scheme,
\* factory error) is resolved once, its check is never invoked and it never
\* waits, whatever the attempts; its terminal error is Resolve's error.
C7_ResolutionFailureIsTerminal ==
    \A l \in Locs :
        ~Resolvable(l) =>
            /\ calls[l] = 0
            /\ waits[l] = 0
            /\ resolves[l] <= 1
            /\ pc[l] \in {"spawned", "send", "done"}
            /\ pc[l] # "spawned" =>
                /\ resolves[l] = 1
                /\ why[l] = "resolve"
                /\ lastErr[l] = Resolution(l).err

C7_Witness ==
    /\ Returned
    /\ opts.attempts = 2
    /\ \E l \in Locs, m \in Locs :
        /\ resources[l] = LocInvalid /\ lastErr[l] = ErrParse
        /\ resources[m] = LocBadHost /\ lastErr[m] = ErrUnknownHost
        /\ calls[l] = 0 /\ calls[m] = 0

C9_CancelEndsWait ==
    /\ [][\A l \in DOMAIN pc :
            /\ (pc[l] = "wait" /\ ctxDone') => pc'[l] = "cancelled"
            /\ (pc[l] = "cancelled" /\ l \in DOMAIN pc') =>
                /\ calls'[l] = calls[l]
                /\ pc'[l] \in {"cancelled", "send"}
                /\ pc'[l] = "send" =>
                    (why'[l] = "cancelled" /\ lastErr'[l] # NoError)]_vars
    /\ (\E l \in DOMAIN pc : pc[l] = "cancelled") ~> Returned

C9_Witness ==
    /\ Returned
    /\ \E l \in Locs :
        /\ why[l] = "cancelled" /\ afterCancel[l] = 0
        /\ waits[l] = 2 /\ calls[l] = 2

\* the error a cancelled or expired context carries
ErrContext == NewError("context canceled")

\* C10: a location whose evaluation ends once the context is done ends in a
\* failure that carries the cancellation.
C10_CancelledLocationsCarryCancellation ==
    [][\A l \in DOMAIN why :
        (ctxDone /\ why[l] = "running" /\ l \in DOMAIN why'
            /\ Resolvable(l) /\ why'[l] # "running")
          => lastErr'[l] = ErrContext]_vars

\* C11: Test with an empty list starts no goroutine, so it resolves and
\* checks nothing; it is never blocked (the closing goroutine or the range
\* loop can always step) and it returns no error.
C11_EmptyListSucceedsAtOnce ==
    (mainPc # "idle" /\ resources = <<>>) =>
        /\ pc = <<>> /\ resolves = <<>> /\ calls = <<>> /\ rsc = <<>>
        /\ output = <<>> /\ buff = <<>> /\ wg = 0
        /\ ~panicked
        /\ ~Returned => ENABLED (Close \/ Return)
        /\ Returned => ret = NoError

C11_Witness ==
    /\ Returned
    /\ resources = <<>>
    /\ closed
    /\ ret = NoError

\* C12: Run starts the program only once Test has returned and exactly when
\* Test returned no error; when Test failed, Run returns Test's error and
\* nil output and the program is never started.
C12_RunExecutesOnlyAfterSuccess ==
    /\ run.started => (Returned /\ ret = NoError)
    /\ run.pc = "returned" =>
        /\ Returned
        /\ run.started <=> (ret = NoError)
        /\ ret # NoError =>
            (run.err = ret /\ run.out = NoOutput /\ run.exe = NoProgram)

C12_Witness ==
    /\ run.pc = "returned"
    /\ ~run.started
    /\ run.out = NoOutput
    /\ MessageContains(run.err, ErrWait)
    /\ \E l \in Locs : resources[l] = LocFailure /\ why[l] = "exhausted"

\* C13: when Test succeeded and the program failed, Run returns the
\* program's error as CombinedOutput gave it; the error Run returns is a
\* failure to wait (its message holds ErrWait's) exactly when Test failed.
C13_ExecutionFailureIsNotWaitFailure ==
    (run.pc = "returned" /\ run.err # NoError) =>
        /\ MessageContains(run.err, ErrWait) <=> (ret # NoError)
        /\ ret = NoError =>
            /\ run.err = CombinedOutput(run.exe).err
            /\ run.out = CombinedOutput(run.exe).out
            /\ ~ErrorsIs(run.err, ErrWait)

C13_Witness ==
    /\ run.pc = "returned"
    /\ ret = NoError
    /\ Len(resources) >= 1
    /\ run.exe = "nonexistent-command"
    /\ run.err = ErrExecNotFound

\* the error of a Test call whose one failure is a resource never ready
ReadinessFailureError == TestResult(<<[loc |-> 1, err |-> ErrNotAvailable]>>)

\* every failure of the call is a resolution failure, and there is one
OnlyResolutionFailures ==
    /\ \A l \in Locs : why[l] \in {"ok", "resolve"}
    /\ \E l \in Locs : why[l] = "resolve"

\* C14: the error of a Test call whose only failures are resolution
\* failures differs, in the sentinel its message names or in the cause it
\* wraps, from the error of a call whose only failures are resources that
\* never became ready.
C14_FailureCategoriesDistinct ==
    (Returned /\ OnlyResolutionFailures) =>
        \/ ret.text # ReadinessFailureError.text
        \/ ret.wraps # ReadinessFailureError.wraps

\* the factory of the first configuration of the list that names scheme s
RECURSIVE FirstFactory(_, _)
FirstFactory(configs, s) ==
    IF s \in Head(configs).Scheme THEN Head(configs).Factory
    ELSE FirstFactory(Tail(configs), s)

\* C15: a constructor once bound to a scheme is never replaced: newRegistry
\* keeps for each scheme the constructor of the first configuration that
\* names it, and no later call changes or removes a binding.
C15_BindingNeverReplaced ==
    /\ [](regOp.op = "newRegistry" =>
            \A i \in DOMAIN regOp.configs : \A s \in regOp.configs[i].Scheme :
                /\ s \in DOMAIN registry
                /\ registry[s] = FirstFactory(regOp.configs, s))
    /\ [][\A s \in DOMAIN registry :
            s \in DOMAIN registry' /\ registry'[s] = registry[s]]_vars

\* C16: Register of a scheme whose trimmed form is bound returns the
\* duplicate-scheme error, naming the trimmed scheme, and leaves the mapping
\* as it was: Resolve answers every location as before.
C16_DuplicateRegisterRejected ==
    [][(regOp'.op = "Register"
            /\ TrimSpace(regOp'.scheme) \in DOMAIN registry) =>
        /\ ErrorsIs(regOp'.err, ErrResourceAlreadyRegistered)
        /\ regOp'.err.detail = TrimSpace(regOp'.scheme)
        /\ registry' = registry
        /\ \A location \in RegistryLocations :
            Resolve(registry', location) = Resolve(registry, location)]_vars

C16_Witness ==
    /\ regOp.op = "Register"
    /\ regOp.scheme = <<" ", "u", " ">>
    /\ ErrorsIs(regOp.err, ErrResourceAlreadyRegistered)
    /\ regOp.factory = "TestResourceFactory"
    /\ registry[<<"u">>] = "MockResourceFactory"

\* the location parses and url.Parse finds scheme k in it
HasScheme(location, k) ==
    ~urlParse(location).err /\ urlParse(location).Scheme = k

SampleHosts == {<<"s">>, <<"f">>, <<"x">>}

\* the location scheme://host
LocationOf(scheme, host) == scheme \o <<":", "/", "/">> \o host

\* after a successful Register of a scheme that trims to k, Resolve of every
\* well-formed location k://host calls the registered factory and returns
\* what it returns
DispatchesTo(k, factory, m) ==
    \A host \in SampleHosts :
        LET location == LocationOf(k, host) IN
        ~urlParse(location).err =>
            /\ Resolve(m, location).called = factory
            /\ Resolve(m, location).rsc =
                    ApplyFactory(factory, urlParse(location)).rsc
            /\ Resolve(m, location).err =
                    ApplyFactory(factory, urlParse(location)).err

\* C18 as stated: schemes are case-sensitive tokens, and after a successful
\* Register(s, f) Resolve of a well-formed location whose scheme is s
\* dispatches to f, for every s Register accepts.
C18_EveryRegisteredSchemeDispatches ==
    [][(regOp'.op = "Register" /\ regOp'.err = NoError) =>
        DispatchesTo(TrimSpace(regOp'.scheme), regOp'.factory, registry')]_vars

\* C18 as amended: Resolve looks up the location's scheme in lower case, so
\* the dispatch holds for every registered scheme without an upper-case
\* letter, whatever the case of the scheme in the location.
C18_LowerCaseSchemeDispatches ==
    [][(regOp'.op = "Register" /\ regOp'.err = NoError
            /\ ToLower(TrimSpace(regOp'.scheme)) = TrimSpace(regOp'.scheme)) =>
        /\ DispatchesTo(TrimSpace(regOp'.scheme), regOp'.factory, registry')
        /\ \A location \in RegistryLocations :
            (~urlParse(location).err /\ location # LocNoScheme
                /\ ToLower(SubSeq(location, 1,
                                   IndexFrom(location, ":", 1) - 1))
                        = TrimSpace(regOp'.scheme)) =>
                Resolve(registry', location).called = regOp'.factory]_vars

C18_Witness ==
    /\ regOp.op = "Register"
    /\ regOp.err = NoError
    /\ regOp.scheme = <<"t">>
    /\ regOp.factory = "TestResourceFactory"
    /\ Resolve(registry, LocUpper).called = "TestResourceFactory"
    /\ Resolve(registry, LocSuccess).rsc = "TestResource"

\* C19: Resolve of a location that parses and whose scheme is not bound
\* returns no resource and an error that wraps ErrResourceNotFound and
\* names the scheme looked up, the location's scheme in lower case; no
\* factory is called.
C19_UnknownSchemeNamesScheme ==
    (regOp.op = "Resolve" /\ ~urlParse(regOp.location).err
        /\ urlParse(regOp.location).Scheme \notin DOMAIN registry) =>
        /\ regOp.rsc = NoResource
        /\ ErrorsIs(regOp.err, ErrResourceNotFound)
        /\ regOp.err.detail = urlParse(regOp.location).Scheme
        /\ regOp.location # LocNoScheme =>
            regOp.err.detail =
                ToLower(SubSeq(regOp.location, 1,
                               IndexFrom(regOp.location, ":", 1) - 1))
        /\ regOp.called = NoFactory

C19_Witness ==
    /\ regOp.op = "Resolve"
    /\ regOp.location = LocUnknown
    /\ DOMAIN registry = {<<"t">>, <<"T">>}
    /\ regOp.err = WrapError(ErrResourceNotFound, <<"u">>)
    /\ regOp.rsc = NoResource

\* the locations of the model that are no URL: a colon with no scheme
\* before it, a colon in the first segment of a path
InvalidLocations == {LocInvalid, LocDigitFirst}

\* C20: Resolve of a syntactically invalid location returns no resource and
\* the parse error and calls no factory, whatever is registered, also when
\* the text before the colon is a bound scheme.
C20_InvalidLocationFailsWhateverIsRegistered ==
    (regOp.op = "Resolve" /\ regOp.location \in InvalidLocations) =>
        /\ regOp.rsc = NoResource
        /\ regOp.err = ErrParse
        /\ regOp.called = NoFactory

C20_Witness ==
    /\ regOp.op = "Resolve"
    /\ regOp.location = LocInvalid
    /\ <<>> \in DOMAIN registry
    /\ regOp.err = ErrParse
    /\ regOp.rsc = NoResource

\* C21: Resolve of a location that parses and whose scheme is bound calls the
\* factory bound to that scheme, and no other, with the parsed URL, and
\* returns that call's resource and error as they are; when the factory
\* fails its error is the error of Resolve and there is no resource.
C21_ResolveReturnsFactoryResult ==
    (regOp.op = "Resolve" /\ ~urlParse(regOp.location).err
        /\ urlParse(regOp.location).Scheme \in DOMAIN registry) =>
        LET u == urlParse(regOp.location)
            built == ApplyFactory(registry[u.Scheme], u) IN
        /\ regOp.called = registry[u.Scheme]
        /\ regOp.rsc = built.rsc
        /\ regOp.err = built.err
        /\ built.err # NoError =>
            /\ regOp.rsc = NoResource
            /\ regOp.err \in {ErrFactory, ErrUnknownHost}

C21_Witness ==
    /\ regOp.op = "Resolve"
    /\ regOp.location = LocSuccess
    /\ regOp.called = "ErrorFactory"
    /\ regOp.err = ErrFactory
    /\ regOp.rsc = NoResource

C23_EachLocationResolvedOnce ==
    /\ \A l \in Locs :
        /\ resolves[l] = IF pc[l] = "spawned" THEN 0 ELSE 1
        /\ calls[l] >= 1 =>
            /\ rsc[l] = Resolution(l).rsc
            /\ rsc[l] # NoResource
    /\ Returned => \A l \in Locs : resolves[l] = 1

C23_Witness ==
    /\ Returned
    /\ Len(resources) = 2
    /\ resources[1] = LocFlaky
    /\ resources[2] = LocFlaky
    /\ \A l \in Locs : calls[l] = 2 /\ resolves[l] = 1 /\ rsc[l] = "flaky"
    /\ ret = NoError

\* C24: calls of Test that run at the same time on one Runner, with options
\* that differ, do not interfere: from its start to its end a call holds the
\* options its own setters gave, its backoff has the intervals and the limit
\* of attempts of those options, its first wait is within the jitter of its
\* own interval, and its check is invoked at most its own attempts + 1
\* times, exactly so often when the limit ends it.
C24_CallsKeepTheirOwnOptions ==
    \A c \in 1..MaxCalls :
        LET call == policy[c]
            own == newOptions(call.setters) IN
        call.pc # "idle" =>
            /\ call.opts = own
            /\ call.pc # "called" =>
                /\ call.b.InitialInterval = own.interval
                /\ call.b.MaxInterval = own.maxInterval
                /\ call.b.maxTries = own.attempts
                /\ call.invoked <= own.attempts + 1
                /\ call.why = "exhausted" => call.invoked = own.attempts + 1
                /\ call.waited # <<>> =>
                    /\ 2 * call.waited[1] >= own.interval
                    /\ 2 * call.waited[1] <= 3 * own.interval

C24_Witness ==
    /\ policy[1].pc = "checking"
    /\ policy[2].pc = "checking"
    /\ policy[1].opts.attempts = 1
    /\ policy[2].opts.attempts = 2
    /\ policy[1].opts.interval # policy[2].opts.interval
    /\ policy[1].invoked = 1
    /\ policy[2].invoked = 2
    /\ policy[1].waited # <<>>
    /\ policy[2].waited # <<>>
    /\ policy[1].waited[1] > policy[2].waited[1]

\* the value of the last setter of a field in a list, the default if none
LastValue(setters, field, default) ==
    LET given == {i \in DOMAIN setters : setters[i].field = field} IN
    IF given = {} THEN default
    ELSE setters[CHOOSE i \in given : \A j \in given : j <= i].value

\* C25: the options of a call are the defaults, 5 s, 60 s and 5 attempts,
\* where no setter names the field, and otherwise what the last setter of
\* that field gave: a setter changes its own field only, and of several
\* setters of one field the last wins.
C25_DefaultsThenLastSetter ==
    LET call == policy[1] IN
    call.pc # "idle" =>
        /\ call.opts.interval =
            LastValue(call.setters, "interval", DefaultInterval * Second)
        /\ call.opts.maxInterval =
            LastValue(call.setters, "maxInterval",
                      DefaultMaxInterval * Second)
        /\ call.opts.attempts =
            LastValue(call.setters, "attempts", DefaultAttempts)
        /\ call.setters = <<>> =>
            /\ call.opts.interval = 5 * Second
            /\ call.opts.maxInterval = 60 * Second
            /\ call.opts.attempts = 5

C25_Witness ==
    /\ policy[1].pc = "checking"
    /\ policy[1].setters = <<WithInterval(1), WithInterval(90)>>
    /\ policy[1].opts.interval = 90 * Second
    /\ policy[1].opts.maxInterval = 60 * Second
    /\ policy[1].opts.attempts = 5

\* C26: the multiplier and the randomization factor belong to the options of
\* a call, 1.5 and 0.5 unless WithMultiplier or WithRandomizationFactor set
\* them, and the backoff of that call's retry loop multiplies and randomizes
\* with the values the options hold.
C26_RetryUsesTheOptionsFactors ==
    LET call == policy[1] IN
    call.pc # "idle" =>
        /\ call.opts.multiplier =
            LastValue(call.setters, "multiplier", DefaultMultiplier)
        /\ call.opts.randomizationFactor =
            LastValue(call.setters, "randomizationFactor",
                      DefaultRandomizationFactor)
        /\ call.pc # "called" =>
            /\ call.b.Multiplier = call.opts.multiplier
            /\ call.b.RandomizationFactor = call.opts.randomizationFactor

\* C27: no wait between two consecutive invocations of a location's check is
\* longer than the maximum interval of the call's options, whatever the
\* options (an interval above the maximum included) and the jitter drawn.
C27_WaitsAtMostMaxInterval ==
    LET call == policy[1] IN
    \A i \in DOMAIN call.waited : call.waited[i] <= call.opts.maxInterval

\* C28: the waits of a location do not decrease until they reach the cap:
\* a wait below the maximum interval is followed by a wait at least as long.
C28_WaitsNonDecreasing ==
    LET call == policy[1] IN
    \A i \in DOMAIN call.waited :
        (i + 1 \in DOMAIN call.waited
            /\ call.waited[i] < call.opts.maxInterval) =>
            call.waited[i + 1] >= call.waited[i]

\* C29: with WithAttempts(0) the attempts are unlimited: while the context
\* is not done (and no deadline of it is near) a location whose check always
\* fails is retried and its evaluation does not end.
C29_UnlimitedAttemptsNeverEnd ==
    \A l \in Locs :
        (opts.attempts = 0 /\ AlwaysFails(l) /\ ~ctxDone /\ ~panicked
            /\ why[l] # "deadline") =>
            why[l] = "running"

\* C30: an invalid argument is reported as ErrInvalidArgument: Resolve of the
\* empty resource URL, or of a location that is no URL, returns an error
\* that is ErrInvalidArgument.
C30_InvalidArgumentReported ==
    (regOp.op = "Resolve"
        /\ regOp.location \in {LocEmpty} \cup InvalidLocations) =>
        ErrorsIs(regOp.err, ErrInvalidArgument)

\* the failures of the call from location l on, in the order of the list
RECURSIVE FailuresFrom(_)
FailuresFrom(l) ==
    IF l > Len(resources) THEN <<>>
    ELSE (IF lastErr[l] # NoError
          THEN <<[loc |-> l, err |-> lastErr[l]]>> ELSE <<>>)
         \o FailuresFrom(l + 1)

\* C31: what Test returns is determined by the list and by the outcome of
\* each location, whichever goroutine finishes first: it is the error made
\* of the failures' messages in the order of the list.
C31_AggregateIsDeterministic ==
    Returned => ret = TestResult(FailuresFrom(1))

\* C32: when the limit of attempts ends the evaluation of a location, the
\* failure of that location is the error its last check invocation returned,
\* the same value and no earlier one, and that error is what the goroutine
\* sends and Test writes.
C32_ExhaustedReportsLastFailure ==
    \A l \in Locs :
        why[l] = "exhausted" =>
            /\ lastErr[l] = ResourceTest(rsc[l], calls[l])
            /\ lastErr[l] # NoError
            /\ lastErr[l].at = calls[l]
            /\ \A i \in DOMAIN output :
                output[i].loc = l => output[i].err.at = calls[l]
            /\ \A i \in DOMAIN buff :
                buff[i].loc = l => buff[i].err.at = calls[l]

C32_Witness ==
    /\ Returned
    /\ opts.attempts = 2
    /\ \E l \in Locs :
        /\ why[l] = "exhausted"
        /\ calls[l] = 3
        /\ lastErr[l] = ReturnedAt(ErrNotAvailable, 3)
        /\ \E i \in DOMAIN buff : buff[i].loc = l /\ buff[i].err.at = 3

\* C33: the first invocation of a location's check follows its resolution
\* with no wait, every later invocation follows exactly one wait, and no
\* wait is begun after the invocation that ends the evaluation: while a
\* check runs, and once a success, the limit of attempts, the elapsed time
\* or a near deadline has ended the evaluation, the waits begun are one less
\* than the invocations; during a wait they are as many; a cancellation
\* ends the evaluation at the check's return or in the wait that followed.
C33_OneWaitBetweenAttempts ==
    \A l \in Locs :
        /\ calls[l] = 0 => waits[l] = 0
        /\ pc[l] = "checking" => waits[l] + 1 = calls[l]
        /\ pc[l] \in {"wait", "retry", "cancelled"} => waits[l] = calls[l]
        /\ why[l] \in {"ok", "exhausted", "elapsed", "deadline"} =>
            waits[l] + 1 = calls[l]
        /\ why[l] = "cancelled" =>
            waits[l] + 1 = calls[l] \/ waits[l] = calls[l]

C33_Witness ==
    /\ Returned
    /\ \E l \in Locs :
        /\ resources[l] = LocFlaky
        /\ why[l] = "ok"
        /\ calls[l] = 2
        /\ waits[l] = 1
    /\ \E l \in Locs :
        /\ resources[l] = LocSuccess
        /\ calls[l] = 1
        /\ waits[l] = 0

\* C34: in every state of a call with attempts = A > 0 the check of a
\* location has been invoked at most A + 1 times, the first attempt and at
\* most A retries, and never for a location whose resolution failed.
C34_AtMostAttemptsPlusOneInvocations ==
    \A l \in Locs :
        /\ opts.attempts > 0 => calls[l] <= opts.attempts + 1
        /\ pc[l] = "checking" => Resolvable(l)
        /\ why[l] = "resolve" => calls[l] = 0

C34_Witness ==
    /\ opts.attempts = 1
    /\ \E l \in Locs :
        /\ resources[l] = LocFailure
        /\ calls[l] = 2
        /\ why[l] = "exhausted"
    /\ \E l \in Locs :
        /\ resources[l] = LocUnknown
        /\ pc[l] = "done"
        /\ calls[l] = 0

\* the results of location l in the channel and in Test's buffer
ResultsOf(l) ==
    Cardinality({i \in DOMAIN output : output[i].loc = l})
        + Cardinality({i \in DOMAIN buff : buff[i].loc = l})

\* C35: the protocol of the result channel.  No goroutine sends on the
\* closed channel; a goroutine about to send finds room in the buffer, whose
\* capacity is the number of locations; a location has a result in flight or
\* written at most once, and only after its goroutine has sent; the
\* WaitGroup counts the goroutines that have not sent; the channel is closed
\* only after every goroutine has sent; and when Test returns the channel is
\* closed and drained, every goroutine has sent once and every failure has
\* been written once.
C35_ResultChannelProtocol ==
    /\ ~panicked
    /\ \A l \in Locs : pc[l] = "send" => Len(output) < Len(resources)
    /\ \A i \in DOMAIN output :
        /\ pc[output[i].loc] = "done"
        /\ \A j \in DOMAIN output : j # i => output[j].loc # output[i].loc
        /\ \A j \in DOMAIN buff : buff[j].loc # output[i].loc
    /\ \A i \in DOMAIN buff :
        /\ pc[buff[i].loc] = "done"
        /\ \A j \in DOMAIN buff : j # i => buff[j].loc # buff[i].loc
    /\ mainPc # "idle" => wg = Cardinality({l \in Locs : pc[l] # "done"})
    /\ closed => \A l \in Locs : pc[l] = "done"
    /\ Returned =>
        /\ closed
        /\ output = <<>>
        /\ \A l \in Locs :
            /\ pc[l] = "done"
            /\ ResultsOf(l) = (IF lastErr[l] # NoError THEN 1 ELSE 0)

C35_Witness ==
    /\ Returned
    /\ closed
    /\ Len(resources) = 2
    /\ resources[1] = LocFailure
    /\ resources[2] = LocFailure
    /\ Len(buff) = 2
    /\ buff[1].loc = 2
    /\ buff[2].loc = 1

\* C36: Test terminates.  With a limit of attempts, goroutines that are
\* scheduled and checks that return, a call of Test that has begun returns,
\* whether the context is cancelled or not: the goroutines, the closing
\* goroutine and the collecting loop do not wait for each other for ever.
C36_TestTerminates ==
    (mainPc = "collect" /\ opts.attempts > 0) ~> Returned

C36_Witness ==
    /\ Returned
    /\ ~ctxDone
    /\ opts.attempts = 2
    /\ Len(resources) = 2
    /\ resources[1] = LocFailure
    /\ resources[2] = LocFlaky
    /\ why[1] = "exhausted"
    /\ why[2] = "ok"
    /\ calls[1] = 3

C38_NoCheckOnMissingResource ==
    /\ ~panicked
    /\ \A l \in Locs :
        /\ calls[l] >= 1 => rsc[l] # NoResource
        /\ (pc[l] # "spawned" /\ rsc[l] = NoResource) =>
            (lastErr[l] # NoError /\ why[l] = "resolve")

\* C39: for every argument n, WithInterval(n) and WithMaxInterval(n) assign
\* exactly n seconds: the duration assigned is n * time.Second, not negative
\* and not wrapped around the width of time.Duration.
C39_SecondsNeverWrap ==
    \A i \in DOMAIN policy[1].setters :
        LET setter == policy[1].setters[i] IN
        setter.field \in {"interval", "maxInterval"} =>
            /\ setter.value = setter.arg * Second
            /\ setter.value >= 0

====
